---- MODULE Spec2Model ----
(***************************************************************************)
(* dockerfu: reconciles the running docker containers with the hipache     *)
(* routing table kept in redis (src/index.js).                             *)
(*                                                                         *)
(* JavaScript strings are TLA+ strings, JavaScript arrays are sequences    *)
(* (index 0 of the source is index 1 here).  The redis store is a function *)
(* from the existing keys to their lists.                                  *)
(***************************************************************************)
EXTENDS Integers, Sequences, FiniteSets, TLC

(***************************************************************************)
(* Bounds of the model.                                                    *)
(***************************************************************************)
\* longest container snapshot docker.listContainers returns
MaxContainers == 2
\* longest command line (argv._)
MaxArgs == 2
\* longest list found under a route key before the run starts
MaxPrior == 3
\* most store errors during the reads of one show
MaxErrors == 1

(***************************************************************************)
(* JavaScript string primitives.                                           *)
(***************************************************************************)
\* s.charAt(i - 1)
charAt(s, i) == SubSeq(s, i, i)

RECURSIVE indexOfFrom(_, _, _)
\* position of the first occurrence of the character ch in s at or after i,
\* 0 when there is none (String.prototype.indexOf, one-character needle)
indexOfFrom(s, ch, i) ==
  IF i > Len(s) THEN 0
  ELSE IF charAt(s, i) = ch THEN i
  ELSE indexOfFrom(s, ch, i + 1)

RECURSIVE split(_, _)
\* String.prototype.split(sep) for a one-character separator
split(s, sep) ==
  LET i == indexOfFrom(s, sep, 1)
  IN  IF i = 0 THEN <<s>>
      ELSE <<SubSeq(s, 1, i - 1)>> \o split(SubSeq(s, i + 1, Len(s)), sep)

RECURSIVE toString(_)
\* Number.prototype.toString() of a natural number
toString(n) ==
  IF n < 10 THEN charAt("0123456789", n + 1)
  ELSE toString(n \div 10) \o charAt("0123456789", (n % 10) + 1)

\* Array.prototype.indexOf(x) !== -1
contains(arr, x) == \E i \in 1..Len(arr) : arr[i] = x

(***************************************************************************)
(* Configuration (rc('dockerfu', DEFAULT_CONFIG)).                         *)
(***************************************************************************)
DEFAULT_CONFIG ==
  [ hipacheBackend |-> "http://127.0.0.1",
    webPorts       |-> "8080,80,3000",
    prefixMaps     |-> "frozenridge:frozenridge.co,stridercd:stridercd.com",
    exceptionMaps  |-> "frozenridge/gitbackups:gitbackups.com,frozenridge/gitbackups:www.gitbackups.com" ]

\* a configuration an rc file may set: a single prefix, listed twice, a
\* single exception, another backend and other web ports
RC_CONFIG ==
  [ hipacheBackend |-> "http://10.0.0.1",
    webPorts       |-> "80,3000",
    prefixMaps     |-> "frozenridge:fr.io,frozenridge:frozenridge.co",
    exceptionMaps  |-> "frozenridge/foo:foo.io" ]

Configs == {DEFAULT_CONFIG, RC_CONFIG}

(***************************************************************************)
(* Pure functions of the source.                                           *)
(***************************************************************************)
\* the value findHttpPorts returns: a public port, or false
PortFound(p) == [found |-> TRUE, port |-> p]
PortFalse == [found |-> FALSE, port |-> 0]

RECURSIVE findHttpPortsFrom_unpublished(_, _, _)
\* the loop without the test of the public port
findHttpPortsFrom_unpublished(ports, webPorts, i) ==
  IF i > Len(ports) THEN PortFalse
  ELSE LET p == ports[i]
           privPort == toString(p.PrivatePort)
       IN  IF contains(webPorts, privPort)
           THEN PortFound(p.PublicPort)
           ELSE findHttpPortsFrom_unpublished(ports, webPorts, i + 1)

RECURSIVE findHttpPortsFrom(_, _, _)
\* the loop of findHttpPorts from index i on
findHttpPortsFrom(ports, webPorts, i) ==
  IF i > Len(ports) THEN PortFalse
  ELSE LET p == ports[i]
           privPort == toString(p.PrivatePort)
       IN  IF p.PublicPort # 0 /\ contains(webPorts, privPort)
           THEN PortFound(p.PublicPort)
           ELSE findHttpPortsFrom(ports, webPorts, i + 1)

findHttpPorts(ports, cfg) ==
  LET webPorts == split(cfg.webPorts, ",")
  IN  findHttpPortsFrom(ports, webPorts, 1)

\* "a:b,c:d" -> << <<"a","b">>, <<"c","d">> >>
parseMaps(m) ==
  LET entries == split(m, ",")
  IN  [i \in 1..Len(entries) |-> split(entries[i], ":")]

RECURSIVE firstMatch(_, _, _)
\* index of the first entry of maps at or after idx whose source is src,
\* Len(maps) + 1 when the loop runs off the end
firstMatch(maps, src, idx) ==
  IF idx > Len(maps) THEN idx
  ELSE IF maps[idx][1] = src THEN idx
  ELSE firstMatch(maps, src, idx + 1)

\* lines 140-144: the exception entry that decides the container, if any
exceptionIndex(exceptionMaps, image) ==
  firstMatch(exceptionMaps, split(image, ":")[1], 1)

\* a format test that lets longer paths through
matchesFormat_atLeast(img) == Len(img) >= 2

\* line 148: the image reference has the form namespace/repo
matchesFormat(img) == Len(img) = 2

RECURSIVE lastMatch(_, _, _)
\* the loop without its break: the last matching entry
lastMatch(maps, src, idx) ==
  IF idx < 1 THEN Len(maps) + 1
  ELSE IF maps[idx][1] = src THEN idx
  ELSE lastMatch(maps, src, idx - 1)

prefixIndex_last(prefixMaps, ns) == lastMatch(prefixMaps, ns, Len(prefixMaps))

\* lines 150-156: the prefix entry of the namespace
prefixIndex(prefixMaps, ns) == firstMatch(prefixMaps, ns, 1)

\* the special case without 'web'
isRootImage_wwwOnly(subdomain) == subdomain = "www"

\* line 165: the containers that also serve the root of the domain
isRootImage(subdomain) == subdomain = "www" \/ subdomain = "web"

\* the routing keys the forEach callback of containerList hands to
\* createRoute for the container c, in call order
routeKeys(c, cfg) ==
  LET prefixMaps    == parseMaps(cfg.prefixMaps)
      exceptionMaps == parseMaps(cfg.exceptionMaps)
      eidx == exceptionIndex(exceptionMaps, c.Image)
      img  == split(c.Image, "/")
      idx  == prefixIndex(prefixMaps, img[1])
      domain    == prefixMaps[idx][2]
      subdomain == split(img[2], ":")[1]
  IN  IF eidx <= Len(exceptionMaps) THEN <<exceptionMaps[eidx][2]>>
      ELSE IF ~matchesFormat(img) THEN <<>>
      ELSE IF idx > Len(prefixMaps) THEN <<>>
      ELSE IF isRootImage(subdomain)
           THEN <<subdomain \o "." \o domain, "www." \o domain, domain>>
           ELSE <<subdomain \o "." \o domain>>

(***************************************************************************)
(* The redis commands the program issues.  A store maps each existing key  *)
(* to its list; redis never keeps an empty list.                           *)
(***************************************************************************)
\* a DEL that removes nothing
del_nothing(s, key) == s

\* DEL key
del(s, key) == [x \in (DOMAIN s) \ {key} |-> s[x]]

\* RPUSH key value
rpush(s, key, value) ==
  [x \in (DOMAIN s) \cup {key} |->
     IF x = key
     THEN (IF key \in DOMAIN s THEN Append(s[key], value) ELSE <<value>>)
     ELSE s[x]]

\* LRANGE key start stop: both ends inclusive, negative offsets count from
\* the end of the list, a missing key reads as the empty list
lrange(s, key, start, stop) ==
  LET l == IF key \in DOMAIN s THEN s[key] ELSE <<>>
      n == Len(l)
      a == IF start < 0 THEN (IF n + start < 0 THEN 0 ELSE n + start) ELSE start
      b == IF stop < 0 THEN n + stop ELSE (IF stop > n - 1 THEN n - 1 ELSE stop)
  IN  SubSeq(l, a + 1, b + 1)

\* the commands createRoute queues between MULTI and EXEC for the key k
transaction(k, backend) ==
  << <<"del", "frontend:" \o k>>,
     <<"rpush", "frontend:" \o k, k>>,
     <<"rpush", "frontend:" \o k, backend>> >>

\* a transaction that ends after the first rpush
multiExec_cut(s, k, backend) ==
  rpush(del(s, "frontend:" \o k), "frontend:" \o k, k)

\* a transaction without the del
multiExec_noDel(s, k, backend) ==
  rpush(rpush(s, "frontend:" \o k, k), "frontend:" \o k, backend)

\* a transaction that empties the store before it writes
multiExec_flush(s, k, backend) ==
  rpush(rpush(<<>>, "frontend:" \o k, k), "frontend:" \o k, backend)

\* a transaction that pushes the backend before the key
multiExec_swapped(s, k, backend) ==
  rpush(rpush(del(s, "frontend:" \o k), "frontend:" \o k, backend),
        "frontend:" \o k, k)

\* the MULTI ... EXEC transaction createRoute queues for the key k: the
\* server runs the three commands as one step
multiExec(s, k, backend) ==
  rpush(rpush(del(s, "frontend:" \o k), "frontend:" \o k, k),
        "frontend:" \o k, backend)

(***************************************************************************)
(* The docker containers and the initial content of the store.             *)
(***************************************************************************)
Binding(priv, pub, ip) == [PrivatePort |-> priv, PublicPort |-> pub, IP |-> ip]

RECURSIVE join(_, _)
\* the segments of an image reference, separated by sep
join(segs, sep) ==
  IF Len(segs) = 1 THEN segs[1]
  ELSE segs[1] \o sep \o join(Tail(segs), sep)

\* the images and port bindings the running containers are drawn from: the
\* path segments of the image reference, its tag ("" for none) and the
\* bindings docker reports
ContainerPool ==
  { [segs  |-> <<"frozenridge", "foo">>, tag |-> "",
     Ports |-> <<Binding(8080, 9001, "0.0.0.0")>>],
    [segs  |-> <<"frozenridge", "foo">>, tag |-> "v2",
     Ports |-> <<Binding(22, 9005, "0.0.0.0"), Binding(80, 9008, "0.0.0.0"),
                 Binding(3000, 9009, "0.0.0.0")>>],
    [segs  |-> <<"frozenridge", "www">>, tag |-> "latest",
     Ports |-> <<Binding(80, 0, ""), Binding(3000, 9002, "0.0.0.0")>>],
    [segs  |-> <<"stridercd", "web">>, tag |-> "",
     Ports |-> <<Binding(80, 9003, "0.0.0.0")>>],
    [segs  |-> <<"frozenridge", "gitbackups">>, tag |-> "",
     Ports |-> <<Binding(80, 9004, "0.0.0.0")>>],
    [segs  |-> <<"redis">>, tag |-> "",
     Ports |-> <<Binding(6379, 6379, "0.0.0.0")>>],
    [segs  |-> <<"frozenridge", "team", "app">>, tag |-> "v1",
     Ports |-> <<Binding(80, 9006, "0.0.0.0")>>],
    [segs  |-> <<"stridercd", "api">>, tag |-> "",
     Ports |-> <<Binding(8080, 0, ""), Binding(5432, 9007, "0.0.0.0")>>] }

\* the image reference docker reports: segments[:tag]
imageRef(p) ==
  join(p.segs, "/") \o (IF p.tag = "" THEN "" ELSE ":" \o p.tag)

\* what docker reports for the container at position i of the listing
Descriptor(i, p) ==
  [Id     |-> "c" \o toString(i),
   Image  |-> imageRef(p),
   Ports  |-> p.Ports,
   Status |-> "Up " \o toString(i) \o " hours"]

\* the listings of up to MaxContainers running containers drawn from pool;
\* no two running containers publish the same port, so none is drawn twice
SnapshotsOf(pool) ==
  UNION { { [i \in 1..n |-> Descriptor(i, pick[i])] :
              pick \in { q \in [1..n -> pool] :
                           \A i, j \in 1..n : i # j => q[i] # q[j] } } :
          n \in 0..MaxContainers }

Snapshots == SnapshotsOf(ContainerPool)

\* bindings whose bind address and public port do not go together: a port
\* published without a bind address, and a binding that has a bind address
\* and no public port
UnpairedPool ==
  { [segs  |-> <<"frozenridge", "bar">>, tag |-> "",
     Ports |-> <<Binding(80, 9010, "")>>],
    [segs  |-> <<"frozenridge", "baz">>, tag |-> "",
     Ports |-> <<Binding(80, 0, "0.0.0.0"), Binding(3000, 9011, "0.0.0.0")>>] }

\* the listings show is run on
ShowSnapshots == SnapshotsOf(ContainerPool \cup UnpairedPool)

\* the first n elements of what an earlier run or a foreign writer left
\* under the store key of foo.frozenridge.co
PriorList(n) ==
  SubSeq(<<"foo.frozenridge.co", "http://127.0.0.1:9100">>
           \o [i \in 1..(MaxPrior - 2) |-> "http://127.0.0.1:" \o toString(9100 + i)],
         1, n)

\* the route of a container that no longer runs
StaleRoute ==
  "frontend:old.frozenridge.co" :> <<"old.frozenridge.co", "http://127.0.0.1:9200">>

InitialStores ==
  { <<>> } \cup
  { ("frontend:foo.frozenridge.co" :> PriorList(n)) @@ StaleRoute : n \in 1..MaxPrior }

Commands == {"sync", "show"}

Argvs == UNION { [1..n -> Commands] : n \in 0..MaxArgs }

(***************************************************************************)
(* State.                                                                  *)
(***************************************************************************)
VARIABLES
  config,      \* the configuration of this run
  argv,        \* the commands of the command line (argv._)
  containers,  \* the running containers, as docker lists them
  store,       \* the redis store
  pc,          \* where the process stands
  operations,  \* main: the operations handed to async.series
  opIdx,       \* main: position of the running operation
  f,           \* sync: the deferred writes of the running sync
  fi,          \* sync: position of the write async.series is running
  reply,       \* the reply of the store to the command in flight
  log,         \* the lines printed so far (console.log)
  exitCode,    \* "running", or how the process ended
  observed,    \* what a concurrent client of the store last read
  store0,      \* history: the store when the run started
  synced,      \* history: the store each time a sync reported success
  commands,    \* history: the commands sent to the store so far
  _containers, \* show: the running containers by public port
  routes,      \* show: the rows pushed to the table
  keys0,       \* show: the keys KEYS * returned (keys[0])
  ki,          \* show: position of the key whose LRANGE reply is next
  errors,      \* show: the store errors of the reads so far
  tables       \* the tables printed so far (console.log(routes.toString()))

\* the state of show
showVars == <<_containers, routes, keys0, ki, errors, tables>>

vars == <<config, argv, containers, store, pc, operations, opIdx, f, fi,
          reply, log, exitCode, observed, store0, synced, commands,
          _containers, routes, keys0, ki, errors, tables>>

NoReply == "none"
NotObserved == [key |-> "", val |-> <<>>, seen |-> FALSE]

Init ==
  /\ config \in Configs
  /\ argv \in Argvs
  /\ containers \in Snapshots
  /\ store \in InitialStores
  /\ pc = "start"
  /\ operations = <<>>
  /\ opIdx = 0
  /\ f = <<>>
  /\ fi = 0
  /\ reply = NoReply
  /\ log = <<>>
  /\ exitCode = "running"
  /\ observed = NotObserved
  /\ store0 = store
  /\ synced = <<>>
  /\ commands = <<>>
  /\ _containers = <<>>
  /\ routes = <<>>
  /\ keys0 = <<>>
  /\ ki = 0
  /\ errors = 0
  /\ tables = <<>>

(***************************************************************************)
(* sync: deriving the writes.                                              *)
(***************************************************************************)
\* the accumulator of the container loop: the writes pushed so far and, once
\* process.exit was called, the lines printed and the exit code
Deriving(ops) == [f |-> ops, exited |-> FALSE, out |-> <<>>, code |-> "running"]

\* createRoute that passes over a container without a public web port
createRoute_skip(k, c, acc, cfg) ==
  LET port == findHttpPorts(c.Ports, cfg)
      backend == cfg.hipacheBackend \o ":" \o toString(port.port)
  IN  IF acc.exited THEN acc
      ELSE IF ~port.found \/ port.port = 0 THEN acc
      ELSE [acc EXCEPT !.f = Append(acc.f, [k |-> k, backend |-> backend, c |-> c.Id])]

\* createRoute without the test of the port
createRoute_noCheck(k, c, acc, cfg) ==
  LET port == findHttpPorts(c.Ports, cfg)
      backend == cfg.hipacheBackend \o ":" \o
                   (IF port.found THEN toString(port.port) ELSE "false")
  IN  IF acc.exited THEN acc
      ELSE [acc EXCEPT !.f = Append(acc.f, [k |-> k, backend |-> backend, c |-> c.Id])]

\* createRoute that puts the write in front of those pushed before
createRoute_unshift(k, c, acc, cfg) ==
  LET port == findHttpPorts(c.Ports, cfg)
      backend == cfg.hipacheBackend \o ":" \o toString(port.port)
  IN  IF acc.exited THEN acc
      ELSE IF ~port.found \/ port.port = 0
      THEN [acc EXCEPT !.exited = TRUE, !.code = "1",
              !.out = <<<<"error: couldn't find valid public http port for container", c.Id>>>>]
      ELSE [acc EXCEPT !.f = <<[k |-> k, backend |-> backend, c |-> c.Id]>> \o acc.f]

\* createRoute(k, c): process.exit(1) when the container has no public web
\* port, else one more deferred write
createRoute(k, c, acc, cfg) ==
  LET port == findHttpPorts(c.Ports, cfg)
      backend == cfg.hipacheBackend \o ":" \o toString(port.port)
  IN  IF acc.exited THEN acc
      ELSE IF ~port.found \/ port.port = 0
      THEN [acc EXCEPT !.exited = TRUE, !.code = "1",
              !.out = <<<<"error: couldn't find valid public http port for container", c.Id>>>>]
      ELSE [acc EXCEPT !.f = Append(acc.f, [k |-> k, backend |-> backend, c |-> c.Id])]

RECURSIVE createRoutes(_, _, _, _, _)
\* the createRoute calls of one container, from the j-th key on
createRoutes(keys, j, c, acc, cfg) ==
  IF j > Len(keys) THEN acc
  ELSE createRoutes(keys, j + 1, c, createRoute(keys[j], c, acc, cfg), cfg)

RECURSIVE forEachContainer(_, _, _, _)
\* res.forEach(function(c) {...}) from the i-th container on
forEachContainer(res, i, acc, cfg) ==
  IF i > Len(res) THEN acc
  ELSE forEachContainer(res, i + 1,
         createRoutes(routeKeys(res[i], cfg), 1, res[i], acc, cfg), cfg)

\* a test that never finds the list empty
nothingToSync_never(ops) == Len(ops) < 0

\* f.length === 0
nothingToSync(ops) == Len(ops) = 0

(***************************************************************************)
(* main: async.series(operations, ...).                                    *)
(***************************************************************************)
\* where the process stands once async.series reaches position i: the
\* operation started, or r.quit() after the last one
startOperation(ops, i) ==
  IF i > Len(ops) THEN "quit"
  ELSE IF ops[i] = "sync" THEN "sync:listContainers"
  ELSE "show:listContainers"

\* the command line is parsed and the first operation is started; without
\* a command, usage() ends the process
main ==
  /\ pc = "start"
  /\ IF Len(argv) < 1
     THEN /\ pc' = "exited"
          /\ exitCode' = "1"
          /\ log' = Append(log, <<"Usage: dockerfu [OPTIONS] <sync|show> <...>">>)
          /\ UNCHANGED <<operations, opIdx>>
     ELSE /\ operations' = SelectSeq(argv, LAMBDA op : op \in {"sync", "show"})
          /\ opIdx' = 1
          /\ pc' = startOperation(operations', 1)
          /\ UNCHANGED <<log, exitCode>>
  /\ UNCHANGED <<config, argv, containers, store, f, fi, reply, observed,
                 store0, synced, commands>>
  /\ UNCHANGED showVars

\* r.quit() closed the connection: the process ends by itself
quit ==
  /\ pc = "quit"
  /\ pc' = "exited"
  /\ exitCode' = "0"
  /\ UNCHANGED <<config, argv, containers, store, operations, opIdx, f, fi,
                 reply, log, observed, store0, synced, commands>>
  /\ UNCHANGED showVars

(***************************************************************************)
(* sync.                                                                   *)
(***************************************************************************)
\* the callback of docker.listContainers in sync
containerList ==
  /\ pc = "sync:listContainers"
  /\ \E err \in BOOLEAN :
       IF err
       THEN \* res is undefined: res.forEach throws, nothing catches it
            /\ pc' = "exited"
            /\ exitCode' = "uncaught"
            /\ f' = <<>>
            /\ UNCHANGED <<fi, log, opIdx, synced, commands>>
       ELSE \E acc \in {forEachContainer(containers, 1, Deriving(<<>>), config)} :
                /\ f' = acc.f
                /\ IF acc.exited
                   THEN /\ pc' = "exited"
                        /\ exitCode' = acc.code
                        /\ log' = log \o acc.out
                        /\ UNCHANGED <<fi, opIdx, synced, commands>>
                   ELSE IF nothingToSync(acc.f)
                   THEN /\ pc' = "exited"
                        /\ exitCode' = "0"
                        /\ log' = Append(log, <<"no running images found to sync. start some?">>)
                        /\ UNCHANGED <<fi, opIdx, synced, commands>>
                   ELSE IF Len(acc.f) = 0
                   THEN \* async.series of no task calls back at once
                        /\ log' = Append(log, <<"hipache synced ok">>)
                        /\ synced' = Append(synced, store)
                        /\ opIdx' = opIdx + 1
                        /\ pc' = startOperation(operations, opIdx + 1)
                        /\ UNCHANGED <<fi, exitCode, commands>>
                   ELSE \* async.series calls f[0]: the transaction is sent
                        /\ fi' = 1
                        /\ pc' = "sync:exec"
                        /\ commands' = Append(commands, transaction(acc.f[1].k, acc.f[1].backend))
                        /\ UNCHANGED <<log, exitCode, opIdx, synced>>
  /\ reply' = NoReply
  /\ UNCHANGED <<config, argv, containers, store, operations, observed, store0>>
  /\ UNCHANGED showVars

\* the store runs the transaction of f[fi], or fails
redisExec ==
  /\ pc = "sync:exec"
  /\ \E ok \in BOOLEAN :
       IF ok
       THEN /\ store' = multiExec(store, f[fi].k, f[fi].backend)
            /\ reply' = "ok"
       ELSE /\ store' = store
            /\ reply' = "err"
  /\ pc' = "sync:reply"
  /\ UNCHANGED <<config, argv, containers, operations, opIdx, f, fi, log,
                 exitCode, observed, store0, synced, commands>>
  /\ UNCHANGED showVars

\* an exec callback that passes over the error of the store
execCallback_ignore ==
  /\ pc = "sync:reply"
  /\ reply' = NoReply
  /\ IF fi < Len(f)
     THEN /\ log' = Append(log, <<"mapped", f[fi].k, f[fi].backend>>)
          /\ fi' = fi + 1
          /\ pc' = "sync:exec"
          /\ commands' = Append(commands, transaction(f[fi + 1].k, f[fi + 1].backend))
          /\ UNCHANGED <<exitCode, opIdx, synced>>
     ELSE /\ log' = log \o << <<"mapped", f[fi].k, f[fi].backend>>,
                              <<"hipache synced ok">> >>
          /\ synced' = Append(synced, store)
          /\ opIdx' = opIdx + 1
          /\ pc' = startOperation(operations, opIdx + 1)
          /\ UNCHANGED <<fi, exitCode, commands>>
  /\ UNCHANGED <<config, argv, containers, store, operations, f, observed, store0>>
  /\ UNCHANGED showVars

\* the callback of exec, and what async.series does next
execCallback ==
  /\ pc = "sync:reply"
  /\ reply' = NoReply
  /\ IF reply = "err"
     THEN /\ log' = Append(log, <<"error syncing hipache", "err">>)
          /\ pc' = "exited"
          /\ exitCode' = "1"
          /\ UNCHANGED <<fi, opIdx, synced, commands>>
     ELSE IF fi < Len(f)
     THEN /\ log' = Append(log, <<"mapped", f[fi].k, f[fi].backend>>)
          /\ fi' = fi + 1
          /\ pc' = "sync:exec"
          /\ commands' = Append(commands, transaction(f[fi + 1].k, f[fi + 1].backend))
          /\ UNCHANGED <<exitCode, opIdx, synced>>
     ELSE /\ log' = log \o << <<"mapped", f[fi].k, f[fi].backend>>,
                              <<"hipache synced ok">> >>
          /\ synced' = Append(synced, store)
          /\ opIdx' = opIdx + 1
          /\ pc' = startOperation(operations, opIdx + 1)
          /\ UNCHANGED <<fi, exitCode, commands>>
  /\ UNCHANGED <<config, argv, containers, store, operations, f, observed, store0>>
  /\ UNCHANGED showVars

(***************************************************************************)
(* A concurrent client of the store (the proxy, or another show) reads a   *)
(* route entry while a sync is writing.                                    *)
(***************************************************************************)
clientLrange ==
  /\ pc \in {"sync:exec", "sync:reply"}
  /\ \E key \in (DOMAIN store) \cup { "frontend:" \o f[i].k : i \in 1..Len(f) } :
       observed' = [key |-> key, val |-> lrange(store, key, 0, -1), seen |-> TRUE]
  /\ UNCHANGED <<config, argv, containers, store, pc, operations, opIdx, f, fi,
                 reply, log, exitCode, store0, synced, commands>>
  /\ UNCHANGED showVars

(***************************************************************************)
(* show.                                                                   *)
(***************************************************************************)
RECURSIVE indexedBinding(_, _, _)
\* the for loop of lookupContainers over the bindings of one container,
\* from index i on: the position of the binding it breaks at, 0 for none
indexedBinding(ports, webPorts, i) ==
  IF i > Len(ports) THEN 0
  ELSE IF ports[i].IP # "" /\ contains(webPorts, toString(ports[i].PrivatePort))
       THEN i
       ELSE indexedBinding(ports, webPorts, i + 1)

RECURSIVE lookupContainersFrom(_, _, _, _)
\* res.forEach(function(f) {...}) of lookupContainers from the i-th
\* container on: _containers[p.PublicPort] = f, the property name being
\* the decimal text of the port
lookupContainersFrom(res, i, index, webPorts) ==
  IF i > Len(res) THEN index
  ELSE LET b == indexedBinding(res[i].Ports, webPorts, 1)
       IN  lookupContainersFrom(res, i + 1,
             IF b = 0 THEN index
             ELSE (toString(res[i].Ports[b].PublicPort) :> res[i]) @@ index,
             webPorts)

\* the host in place of the port
forwardPort_host(backend) ==
  LET parts == split(backend, ":")
  IN  IF Len(parts) >= 2 THEN parts[2] ELSE "undefined"

\* res[1].split(':')[2]
forwardPort(backend) ==
  LET parts == split(backend, ":")
  IN  IF Len(parts) >= 3 THEN parts[3] ELSE "undefined"

\* the row lookupRoute pushes for the key k and the list res read under it
routeRow(k, res, index) ==
  <<k, res[2],
    IF forwardPort(res[2]) \in DOMAIN index
    THEN index[forwardPort(res[2])].Status
    ELSE "! Down !">>

RECURSIVE keysOf(_)
\* KEYS *: the keys of the store, in the order the server lists them
keysOf(K) ==
  IF K = {} THEN <<>>
  ELSE LET k == CHOOSE x \in K : TRUE
       IN  <<k>> \o keysOf(K \ {k})

\* the callback of docker.listContainers in show: the index is built and
\* lookupRoutes sends MULTI, KEYS *, EXEC
lookupContainers ==
  /\ pc = "show:listContainers"
  /\ \E err \in BOOLEAN :
       IF err
       THEN \* throw err: nothing catches it
            /\ pc' = "exited"
            /\ exitCode' = "uncaught"
            /\ UNCHANGED _containers
       ELSE /\ _containers' = lookupContainersFrom(containers, 1, <<>>,
                                                   split(config.webPorts, ","))
            /\ pc' = "show:keys"
            /\ UNCHANGED exitCode
  /\ routes' = <<>>
  /\ keys0' = <<>>
  /\ ki' = 0
  /\ errors' = 0
  /\ UNCHANGED <<config, argv, containers, store, operations, opIdx, f, fi,
                 reply, log, observed, store0, synced, commands, tables>>

\* the callback of the exec of lookupRoutes: async.map sends one LRANGE per
\* key; with no key it calls done at once, which prints the table and
\* calls back
keysCallback ==
  /\ pc = "show:keys"
  /\ \E err \in BOOLEAN :
       IF err
       THEN \* keys is undefined: keys[0] throws, nothing catches it
            /\ pc' = "exited"
            /\ exitCode' = "uncaught"
            /\ UNCHANGED <<keys0, ki, tables, opIdx>>
       ELSE \E ks \in {keysOf(DOMAIN store)} :
              /\ keys0' = ks
              /\ IF ks = <<>>
                 THEN /\ tables' = Append(tables, routes)
                      /\ opIdx' = opIdx + 1
                      /\ pc' = startOperation(operations, opIdx + 1)
                      /\ UNCHANGED ki
                 ELSE /\ ki' = 1
                      /\ pc' = "show:lrange"
                      /\ UNCHANGED <<tables, opIdx>>
              /\ UNCHANGED exitCode
  /\ UNCHANGED <<config, argv, containers, store, operations, f, fi, reply,
                 log, observed, store0, synced, commands, _containers,
                 routes, errors>>

\* the callback of the LRANGE of keys0[ki].  On the first error async.map
\* calls done, which prints the rows pushed so far and calls back without
\* an error; the replies still to come are handled all the same, and the
\* connection main closes with r.quit() stays open for them.  After the
\* last reply of reads without error async.map calls done.
lrangeCallback ==
  /\ pc = "show:lrange"
  /\ \E err \in (IF errors < MaxErrors THEN BOOLEAN ELSE {FALSE}) :
       \E res \in {lrange(store, keys0[ki], 0, -1)} :
         IF err
         THEN /\ errors' = errors + 1
              /\ tables' = IF errors = 0 THEN Append(tables, routes) ELSE tables
              /\ UNCHANGED <<routes, exitCode>>
              /\ IF ki < Len(keys0)
                 THEN ki' = ki + 1 /\ UNCHANGED <<pc, opIdx>>
                 ELSE /\ opIdx' = opIdx + 1
                      /\ pc' = startOperation(operations, opIdx + 1)
                      /\ UNCHANGED ki
         ELSE IF Len(res) < 2
         THEN \* res[1] is undefined: res[1].split throws
              /\ pc' = "exited"
              /\ exitCode' = "uncaught"
              /\ UNCHANGED <<routes, ki, errors, tables, opIdx>>
         ELSE /\ routes' = Append(routes, routeRow(keys0[ki], res, _containers))
              /\ UNCHANGED <<errors, exitCode>>
              /\ IF ki < Len(keys0)
                 THEN ki' = ki + 1 /\ UNCHANGED <<pc, opIdx, tables>>
                 ELSE /\ tables' = IF errors = 0 THEN Append(tables, routes')
                                   ELSE tables
                      /\ opIdx' = opIdx + 1
                      /\ pc' = startOperation(operations, opIdx + 1)
                      /\ UNCHANGED ki
  /\ UNCHANGED <<config, argv, containers, store, operations, f, fi, reply,
                 log, observed, store0, synced, commands, _containers, keys0>>

(***************************************************************************)
(* Specifications.                                                         *)
(***************************************************************************)
Next ==
  \/ main
  \/ containerList
  \/ redisExec
  \/ execCallback
  \/ quit

\* runs of sync commands
InitSync ==
  /\ Init
  /\ \A i \in 1..Len(argv) : argv[i] = "sync"

Spec == InitSync /\ [][Next]_vars

\* one sync, and a client that reads the store while it runs
InitClient ==
  /\ Init
  /\ argv = <<"sync">>

NextClient ==
  \/ Next
  \/ clientLrange

SpecClient == InitClient /\ [][NextClient]_vars

\* the command lines that end with show
ShowArgvs == { <<"show">>, <<"sync", "show">> }

\* runs of show, alone and after a sync
InitShow ==
  /\ config \in Configs
  /\ argv \in ShowArgvs
  /\ containers \in ShowSnapshots
  /\ store \in InitialStores
  /\ pc = "start"
  /\ operations = <<>>
  /\ opIdx = 0
  /\ f = <<>>
  /\ fi = 0
  /\ reply = NoReply
  /\ log = <<>>
  /\ exitCode = "running"
  /\ observed = NotObserved
  /\ store0 = store
  /\ synced = <<>>
  /\ commands = <<>>
  /\ _containers = <<>>
  /\ routes = <<>>
  /\ keys0 = <<>>
  /\ ki = 0
  /\ errors = 0
  /\ tables = <<>>

NextShow ==
  \/ Next
  \/ lookupContainers
  \/ keysCallback
  \/ lrangeCallback

SpecShow == InitShow /\ [][NextShow]_vars

(***************************************************************************)
(* What the claims are stated over: the configurations and the images by   *)
(* their parts, as they were composed, never as the program parses them.   *)
(***************************************************************************)
\* the parts of the two configurations
ConfigParts ==
  [cfg \in Configs |->
     IF cfg = DEFAULT_CONFIG
     THEN [backend    |-> "http://127.0.0.1",
           webPorts   |-> {8080, 80, 3000},
           prefixes   |-> << <<"frozenridge", "frozenridge.co">>,
                             <<"stridercd", "stridercd.com">> >>,
           exceptions |-> << <<"frozenridge/gitbackups", "gitbackups.com">>,
                             <<"frozenridge/gitbackups", "www.gitbackups.com">> >>]
     ELSE [backend    |-> "http://10.0.0.1",
           webPorts   |-> {80, 3000},
           prefixes   |-> << <<"frozenridge", "fr.io">>,
                             <<"frozenridge", "frozenridge.co">> >>,
           exceptions |-> << <<"frozenridge/foo", "foo.io">> >>]]

\* the decimal text of the public ports of the pool and of the ports of
\* the routes found in the store
PortText(p) ==
  CASE p = 9001 -> "9001" [] p = 9002 -> "9002" [] p = 9003 -> "9003"
    [] p = 9004 -> "9004" [] p = 9005 -> "9005" [] p = 9006 -> "9006"
    [] p = 9007 -> "9007" [] p = 9008 -> "9008" [] p = 9009 -> "9009"
    [] p = 9010 -> "9010" [] p = 9011 -> "9011"
    [] p = 9100 -> "9100" [] p = 9101 -> "9101" [] p = 9102 -> "9102"
    [] p = 9103 -> "9103" [] p = 9200 -> "9200"
    [] p = 6379 -> "6379" [] OTHER -> "0"

\* the bindings of the pool element p that qualify under the configuration
\* parts cp: published, and the private port is a web port
QualifyingBindings(cp, p) ==
  { j \in 1..Len(p.Ports) :
      /\ p.Ports[j].PublicPort # 0
      /\ p.Ports[j].PrivatePort \in cp.webPorts }

\* what is expected of a container composed from the pool element p under
\* the configuration parts cp
Expectation(cp, p) ==
  LET web   == QualifyingBindings(cp, p)
      first == CHOOSE j \in web : \A m \in web : j <= m
      hit   == SelectSeq(cp.exceptions, LAMBDA e : e[1] = join(p.segs, "/"))
      pre   == SelectSeq(cp.prefixes, LAMBDA e : e[1] = p.segs[1])
  IN  [segs             |-> p.segs,
       tag              |-> p.tag,
       webBindings      |-> web,
       \* the backend of the first qualifying binding
       backend          |-> IF web = {} THEN ""
                            ELSE cp.backend \o ":" \o PortText(p.Ports[first].PublicPort),
       \* the targets of all exception entries of the image, in map order
       exceptionTargets |-> [n \in 1..Len(hit) |-> hit[n][2]],
       \* the prefix entries of the namespace
       prefixEntries    |-> pre,
       \* the routing keys the image leads to: the targets of its
       \* exception entries, or sub.domain and, for www and web, www.domain
       \* and domain, domain being that of the first prefix entry
       routingKeys      |->
         IF hit # <<>> THEN { hit[n][2] : n \in 1..Len(hit) }
         ELSE IF Len(p.segs) = 2 /\ pre # <<>>
         THEN { p.segs[2] \o "." \o pre[1][2] } \cup
              (IF p.segs[2] \in {"www", "web"}
               THEN { "www." \o pre[1][2], pre[1][2] } ELSE {})
         ELSE {}]

\* the expectations, by configuration and by what docker reports
Expectations ==
  [cfg \in Configs |->
     [key \in { <<imageRef(p), p.Ports>> : p \in ContainerPool \cup UnpairedPool } |->
        Expectation(ConfigParts[cfg],
                    CHOOSE p \in ContainerPool \cup UnpairedPool :
                      <<imageRef(p), p.Ports>> = key)]]

\* what is expected of the container at position i
PartsOf(i) == Expectations[config][<<containers[i].Image, containers[i].Ports>>]

WebBindings(i) == PartsOf(i).webBindings

HasWebPort(i) == WebBindings(i) # {}

ExceptionTargets(i) == PartsOf(i).exceptionTargets

PrefixEntries(i) == PartsOf(i).prefixEntries

\* the image of the container leads to at least one route
HasRoute(i) ==
  \/ ExceptionTargets(i) # <<>>
  \/ Len(PartsOf(i).segs) = 2 /\ PrefixEntries(i) # <<>>

\* the keys of the writes derived from the container at position i, in order
KeysOf(i) ==
  LET ops == SelectSeq(f, LAMBDA op : op.c = containers[i].Id)
  IN  [n \in 1..Len(ops) |-> ops[n].k]

\* the backends of the writes derived from the container at position i
BackendsOf(i) ==
  { f[n].backend : n \in { m \in 1..Len(f) : f[m].c = containers[i].Id } }

\* the container loop of the running sync went through the whole snapshot
\* and the writes are being executed
Executing == pc \in {"sync:exec", "sync:reply"}

LastLog == IF log = <<>> THEN <<>> ELSE log[Len(log)]

\* the sync stopped at the container with the given id for want of a port
PortAbort(id) ==
  /\ pc = "exited"
  /\ exitCode = "1"
  /\ LastLog = <<"error: couldn't find valid public http port for container", id>>

(***************************************************************************)
(* C1..C5: port selection and route derivation.                            *)
(***************************************************************************)
\* the backend the program is to derive for the container at position i:
\* hipacheBackend, ':' and the public port of its first qualifying binding
ExpectedBackend(i) == PartsOf(i).backend

\* C1: findHttpPorts returns the public port of the first binding, in the
\* given order, whose public port is nonzero and whose private port is a
\* web port, and false when no binding qualifies: every write derived for a
\* container carries that port, a container the loop derives writes for has
\* such a binding, and a sync that stopped for want of a port stopped at a
\* container without one.
C1_FirstWebBinding ==
  \A i \in 1..Len(containers) :
    /\ BackendsOf(i) # {} => HasWebPort(i) /\ BackendsOf(i) = {ExpectedBackend(i)}
    /\ Executing /\ HasRoute(i) => HasWebPort(i) /\ BackendsOf(i) # {}
    /\ PortAbort(containers[i].Id) => ~HasWebPort(i)

\* a write was derived for a container whose first binding does not qualify
\* and which has two that do
C1_Witness ==
  /\ Executing
  /\ \E i \in 1..Len(containers) :
       /\ 1 \notin WebBindings(i)
       /\ Cardinality(WebBindings(i)) >= 2
       /\ BackendsOf(i) # {}

\* C2: a container whose image, tag stripped, is the source of exception
\* entries gets one route per matching entry, in map order, and none from
\* the prefix map.
C2_AllExceptionTargets ==
  Executing =>
    \A i \in 1..Len(containers) :
      ExceptionTargets(i) # <<>> => KeysOf(i) = ExceptionTargets(i)

\* the namespace/repo containers no exception entry matches and whose
\* namespace has a prefix entry
PrefixRouted(i) ==
  /\ Len(PartsOf(i).segs) = 2
  /\ ExceptionTargets(i) = <<>>
  /\ PrefixEntries(i) # <<>>

\* the domain of the first prefix entry of the namespace
FirstDomain(i) == PrefixEntries(i)[1][2]

\* C3: for such a container the first key derived is repo.domain, domain
\* being the target of the first prefix entry of the namespace, the tag is
\* no part of it, and the backend written is hipacheBackend:port.
C3_PrefixRoute ==
  \A i \in 1..Len(containers) :
    PrefixRouted(i) =>
      /\ Executing =>
           /\ KeysOf(i) # <<>>
           /\ KeysOf(i)[1] = PartsOf(i).segs[2] \o "." \o FirstDomain(i)
           /\ BackendsOf(i) = {ExpectedBackend(i)}
      /\ pc = "sync:reply" /\ reply = "ok" /\ f[fi].c = containers[i].Id =>
           store["frontend:" \o f[fi].k] = <<f[fi].k, ExpectedBackend(i)>>

\* the first route of a tagged image whose namespace has two prefix entries
\* was written
C3_Witness ==
  /\ pc = "sync:reply"
  /\ reply = "ok"
  /\ \E i \in 1..Len(containers) :
       /\ PrefixRouted(i)
       /\ Len(PrefixEntries(i)) >= 2
       /\ PartsOf(i).tag # ""
       /\ f[fi].c = containers[i].Id
       /\ f[fi].k = KeysOf(i)[1]

\* C4: a prefix-routed www or web container gets exactly the three keys
\* sub.domain, www.domain, domain, in this order; any other exactly one.
C4_RootExpansion ==
  Executing =>
    \A i \in 1..Len(containers) :
      PrefixRouted(i) =>
        LET sub == PartsOf(i).segs[2]
            domain == FirstDomain(i)
        IN  KeysOf(i) = IF sub \in {"www", "web"}
                        THEN <<sub \o "." \o domain, "www." \o domain, domain>>
                        ELSE <<sub \o "." \o domain>>

\* the writes of a web container and of a www container were derived
C4_Witness ==
  /\ Executing
  /\ \E i, j \in 1..Len(containers) :
       /\ PrefixRouted(i) /\ PartsOf(i).segs[2] = "web"
       /\ PrefixRouted(j) /\ PartsOf(j).segs[2] = "www"

\* the containers the image router ignores
Ignored(i) ==
  /\ ExceptionTargets(i) = <<>>
  /\ \/ Len(PartsOf(i).segs) # 2
     \/ PrefixEntries(i) = <<>>

\* C5: an image with no or with two and more '/' that matches no exception
\* entry, and a namespace/repo image whose namespace has no prefix entry,
\* derive no key; the sync never stops because of such a container and
\* writes nothing for it.
C5_IgnoredImages ==
  \A i \in 1..Len(containers) :
    Ignored(i) =>
      /\ KeysOf(i) = <<>>
      /\ ~PortAbort(containers[i].Id)
      /\ pc \in {"sync:exec", "sync:reply"} => f[fi].c # containers[i].Id

\* a sync executes the writes of another container while the snapshot holds
\* an image with two '/', for which it derived none
C5_Witness ==
  /\ Executing
  /\ \E i \in 1..Len(containers) :
       /\ Ignored(i)
       /\ Len(PartsOf(i).segs) >= 3

(***************************************************************************)
(* C6..C8: the route write.                                                *)
(***************************************************************************)
\* what the store held under the key when the run started
Prior(key) == IF key \in DOMAIN store0 THEN store0[key] ELSE <<>>

\* C6: the write of a route is one transaction: whatever a concurrent
\* client reads under a store key is either what the key held before the
\* sync or the complete pair [K, B] of a write derived for 'frontend:' + K,
\* never an emptied entry and never the key alone.
C6_AtomicWrite ==
  observed.seen =>
    \/ observed.val = Prior(observed.key)
    \/ \E n \in 1..Len(f) :
         /\ observed.key = "frontend:" \o f[n].k
         /\ observed.val = <<f[n].k, f[n].backend>>

\* the client read an entry the sync had replaced
C6_Witness ==
  /\ observed.seen
  /\ observed.key \in DOMAIN store0
  /\ observed.val # store0[observed.key]

\* C7: after a successful write of (K, B), whatever 'frontend:' + K held
\* before, LRANGE 0 -1 of the key yields exactly [K, B].
C7_RoundTrip ==
  pc = "sync:reply" /\ reply = "ok" =>
    lrange(store, "frontend:" \o f[fi].k, 0, -1) = <<f[fi].k, f[fi].backend>>

\* a write succeeded on a key that held a list of three or more elements
C7_Witness ==
  /\ pc = "sync:reply"
  /\ reply = "ok"
  /\ Len(Prior("frontend:" \o f[fi].k)) >= 3

\* C8: a sync that succeeds right after a successful sync of the same
\* snapshot leaves the store as the first one left it.
C8_Idempotent ==
  \A n \in 1..(Len(synced) - 1) : synced[n + 1] = synced[n]

\* two syncs succeeded, two containers derive the same key with different
\* backends, and the first sync changed the store
C8_Witness ==
  /\ Len(synced) >= 2
  /\ synced[1] # store0
  /\ \E m, n \in 1..Len(f) : f[m].k = f[n].k /\ f[m].backend # f[n].backend

(***************************************************************************)
(* C9, C10: the outcomes of the container loop.                            *)
(***************************************************************************)
\* docker answered the listing of the first sync and the loop has run
Listed ==
  /\ Len(argv) >= 1
  /\ pc \notin {"start", "sync:listContainers"}
  /\ exitCode # "uncaught"

\* the first element of a nonempty set of positions
First(S) == CHOOSE i \in S : \A j \in S : i <= j

Portless == { i \in 1..Len(containers) : ~HasWebPort(i) }

RoutedPortless == { i \in 1..Len(containers) : HasRoute(i) /\ ~HasWebPort(i) }

\* C9 as claimed: whenever some container of the snapshot has no public web
\* port, the sync halts with the fatal outcome that names the first of
\* them, whether or not its image derives a key.
C9_PortlessAlwaysFatal ==
  Listed /\ Portless # {} => PortAbort(containers[First(Portless)].Id)

\* C9 as amended: the sync halts, before any store command, at the first
\* container that derives a key and has no public web port, and names it;
\* it never halts for want of a port otherwise.
C9_RoutedPortlessFatal ==
  Listed =>
    IF RoutedPortless # {}
    THEN /\ PortAbort(containers[First(RoutedPortless)].Id)
         /\ commands = <<>>
         /\ store = store0
    ELSE \A i \in 1..Len(containers) : ~PortAbort(containers[i].Id)

\* the sync passed over a container without a port and halted at a later one
C9_Witness ==
  /\ Len(containers) >= 2
  /\ PortAbort(containers[2].Id)
  /\ ~HasWebPort(1)

NothingToSync == <<"no running images found to sync. start some?">>

\* C10: when no container of the snapshot derives a write, sync prints the
\* nothing-to-sync line and ends the process with code 0, having sent no
\* command to the store and leaving it as it was.
C10_NothingToSync ==
  Listed /\ (\A i \in 1..Len(containers) : ~HasRoute(i)) =>
    /\ pc = "exited"
    /\ exitCode = "0"
    /\ log = <<NothingToSync>>
    /\ commands = <<>>
    /\ store = store0
    /\ synced = <<>>

\* a sync of a snapshot of ignored containers ended over a store that is
\* not empty
C10_Witness ==
  /\ pc = "exited"
  /\ exitCode = "0"
  /\ LastLog = NothingToSync
  /\ Len(containers) >= 1
  /\ DOMAIN store # {}

(***************************************************************************)
(* C11: a store error during sync.                                         *)
(***************************************************************************)
\* the store when the running sync started
SyncBase == IF synced = <<>> THEN store0 ELSE synced[Len(synced)]

\* the store keys of the derived writes
StoreKeys == [m \in 1..Len(f) |-> "frontend:" \o f[m].k]

\* the last element of a nonempty set of positions
Last(S) == CHOOSE i \in S : \A j \in S : j <= i

\* what the store is to hold once the first n derived writes of the
\* running sync were executed in order over the store it started from
Written(n) ==
  LET sk == CHOOSE q \in {StoreKeys} : TRUE
  IN  [key \in (DOMAIN SyncBase) \cup { sk[m] : m \in 1..n } |->
         LET w == { m \in 1..n : sk[m] = key }
         IN  IF w = {} THEN SyncBase[key]
             ELSE <<f[Last(w)].k, f[Last(w)].backend>>]

\* the transactions of the derived writes, in derivation order
Transactions == [n \in 1..Len(f) |-> transaction(f[n].k, f[n].backend)]

SyncedOk == <<"hipache synced ok">>

SyncError == <<"error syncing hipache", "err">>

\* C11: when the store answers a route write with an error, the store
\* holds the routes of the writes before the failing one, the commands sent
\* are those of the writes up to the failing one, each once, and the next
\* step of the process is its end with code 1 and the error line: no
\* further command, no change of the store, no report of success.
C11_FailFast ==
  [][reply = "err" =>
       /\ store = Written(fi - 1)
       /\ commands = [n \in 1..(Len(synced) * Len(f) + fi) |->
                        Transactions[((n - 1) % Len(f)) + 1]]
       /\ pc' = "exited"
       /\ exitCode' = "1"
       /\ log' = Append(log, SyncError)
       /\ commands' = commands
       /\ store' = store
       /\ synced' = synced]_vars

\* a sync ended on the error of its second or a later write, and the routes
\* written before remain
C11_Witness ==
  /\ pc = "exited"
  /\ exitCode = "1"
  /\ LastLog = SyncError
  /\ fi >= 2
  /\ store # SyncBase
  /\ store = Written(fi - 1)

(***************************************************************************)
(* C12: the rows of show.                                                  *)
(***************************************************************************)
\* the ports of the backends a store of the model can hold
KnownPorts == (9001..9011) \cup (9100..(9100 + MaxPrior)) \cup {9200}

\* the port component of the backend addresses, by the parts they were
\* composed of
PortOfBackend ==
  [b \in { ConfigParts[cfg].backend \o ":" \o PortText(p) :
             cfg \in Configs, p \in KnownPorts } |->
     CHOOSE t \in { PortText(p) : p \in KnownPorts } :
       \E cfg \in Configs : b = ConfigParts[cfg].backend \o ":" \o t]

Down == "! Down !"

\* the status show is to print for a backend, given the index it built
StatusOf(b) ==
  IF PortOfBackend[b] \in DOMAIN _containers
  THEN _containers[PortOfBackend[b]].Status
  ELSE Down

\* a show came to its end without an error of the store
ShownOk == pc = "quit" /\ errors = 0

\* C12: a show whose reads all succeed prints one table, and the table has
\* exactly one row per key of the store: the key, the backend stored under
\* it, and the down marker if the port of the backend is no key of the
\* index of running containers, else the Status of the container indexed
\* under that port.
C12_OneRowPerKey ==
  /\ ShownOk => Len(tables) = 1
  /\ errors = 0 =>
       \A n \in 1..Len(tables) :
         /\ Len(tables[n]) = Cardinality(DOMAIN store)
         /\ \A key \in DOMAIN store :
              \E r \in 1..Len(tables[n]) :
                tables[n][r] = <<key, store[key][2], StatusOf(store[key][2])>>

\* a table was printed that has a row of a running container and a row
\* with the down marker
C12_Witness ==
  /\ ShownOk
  /\ Len(tables) = 1
  /\ \E r, q \in 1..Len(tables[1]) :
       /\ tables[1][r][3] = Down
       /\ tables[1][q][3] # Down

(***************************************************************************)
(* C13: a store error during show.                                         *)
(***************************************************************************)
\* C13: once the read of a route entry failed in show, show does not call
\* back as after a success, so that main never goes on to r.quit(), and
\* when the process has ended it has not ended with code 0.
C13_ReadErrorFatal ==
  errors > 0 =>
    /\ pc # "quit"
    /\ pc = "exited" => exitCode # "0"

(***************************************************************************)
(* C14..C16: the store over sync runs.                                     *)
(***************************************************************************)
\* every key of the store s is 'frontend:' + K and holds exactly the list
\* [K, B], B being a backend address
WellFormed(s) ==
  \A key \in DOMAIN s :
    /\ Len(s[key]) = 2
    /\ key = "frontend:" \o s[key][1]
    /\ s[key][2] \in DOMAIN PortOfBackend

\* C14: when the store a run starts from is empty, or is what earlier sync
\* runs over other snapshots left (every key 'frontend:' + K holding
\* exactly [K, B]), then at every point of the run, whether its syncs
\* succeed, stop for want of a port or stop on a store error, every key of
\* the store is 'frontend:' + K and holds exactly [K, B].
C14_StoreInvariant == WellFormed(store0) => WellFormed(store)

\* from the empty store a first sync succeeded and a second one stopped on
\* a store error, and the store holds two routes or more
C14_Witness ==
  /\ store0 = <<>>
  /\ Len(synced) >= 1
  /\ pc = "exited"
  /\ LastLog = SyncError
  /\ Cardinality(DOMAIN store) >= 2

\* the routing keys the image of the container at position i leads to
RoutingKeys(i) == PartsOf(i).routingKeys

\* the store keys of the routing keys of the snapshot
SnapshotKeys ==
  { "frontend:" \o k : k \in UNION { RoutingKeys(i) : i \in 1..Len(containers) } }

\* C15: at every point of a run of syncs, every entry the store held at
\* the start under a key that is not 'frontend:' + K for a routing key K of
\* the snapshot is still there, unchanged, and every key that was added is
\* such a key: sync deletes nothing but what it rewrites.
C15_NeverPrunes ==
  /\ \A key \in (DOMAIN store0) \ SnapshotKeys :
       key \in DOMAIN store /\ store[key] = store0[key]
  /\ (DOMAIN store) \ (DOMAIN store0) \subseteq SnapshotKeys
  /\ DOMAIN store0 \subseteq DOMAIN store

\* a sync succeeded, it rewrote a route and added another, and the stale
\* route of a container that no longer runs is still in the store
C15_Witness ==
  /\ Len(synced) >= 1
  /\ "frontend:old.frozenridge.co" \in DOMAIN store0
  /\ store["frontend:old.frozenridge.co"] = store0["frontend:old.frozenridge.co"]
  /\ \E key \in DOMAIN store0 : store[key] # store0[key]
  /\ DOMAIN store # DOMAIN store0

\* the position in the snapshot of the container with the given id
Position(id) == CHOOSE i \in 1..Len(containers) : containers[i].Id = id

\* the containers that derived a write for the routing key k
DerivedBy(k) ==
  { Position(f[n].c) : n \in { m \in 1..Len(f) : f[m].k = k } }

\* C16: the deferred writes stand in derivation order, the containers in
\* snapshot order; their transactions are sent in that order, one at a
\* time: while the n-th is in flight the store holds exactly the first
\* n - 1 writes, applied in order, and after its success the first n; and
\* after a successful sync every routing key holds the backend of the last
\* container, in snapshot order, that derived it.
C16_SerialLastWriterWins ==
  /\ \A n \in 1..(Len(f) - 1) :
       Position(f[n].c) <= Position(f[n + 1].c)
  /\ Executing =>
       commands = [n \in 1..(Len(synced) * Len(f) + fi) |->
                     Transactions[((n - 1) % Len(f)) + 1]]
  /\ pc = "sync:exec" => store = Written(fi - 1)
  /\ pc = "sync:reply" => store = Written(IF reply = "ok" THEN fi ELSE fi - 1)
  /\ \A n \in 1..Len(synced) :
       \A m \in 1..Len(f) :
         synced[n]["frontend:" \o f[m].k] =
           <<f[m].k, ExpectedBackend(Last(DerivedBy(f[m].k)))>>

\* a sync succeeded in which two containers derived the same routing key
\* with different backends, and the key holds the backend of the later one
C16_Witness ==
  /\ Len(synced) >= 1
  /\ \E m, n \in 1..Len(f) :
       /\ m < n
       /\ f[m].k = f[n].k
       /\ f[m].c # f[n].c
       /\ f[m].backend # f[n].backend
       /\ store["frontend:" \o f[m].k] = <<f[n].k, f[n].backend>>

(***************************************************************************)
(* C17: the index of show and the port selector.                           *)
(***************************************************************************)
\* show built its index
Indexed == pc \in {"show:keys", "show:lrange"}

\* the public port the port selector is to return for the container at
\* position i: that of its first qualifying binding
SelectedPort(i) == containers[i].Ports[First(WebBindings(i))].PublicPort

\* the ports the index of show maps to the container at position i
IndexedPorts(i) ==
  { t \in DOMAIN _containers : _containers[t].Id = containers[i].Id }

\* C17: the index show builds maps a public port to a container exactly
\* when it is the port the port selector returns for the bindings of the
\* container: one entry for a container that has a qualifying binding,
\* none for a container the selector returns 'none' for.
C17_IndexMatchesSelector ==
  Indexed =>
    \A i \in 1..Len(containers) :
      IndexedPorts(i) = IF HasWebPort(i) THEN {PortText(SelectedPort(i))} ELSE {}

(***************************************************************************)
(* C18: sync and show in one invocation.                                   *)
(***************************************************************************)
\* show is running
Showing == pc \in {"show:listContainers", "show:keys", "show:lrange"}

\* C18: on the command line 'sync show', show runs only once sync has
\* reported its success, and a process whose sync ended without a failure,
\* by its success or by the nothing-to-sync outcome, does not end before
\* show was started.
C18_ShowAfterSync ==
  argv = <<"sync", "show">> =>
    /\ Showing => Len(synced) = 1 /\ LastLog = SyncedOk /\ opIdx = 2
    /\ pc = "exited" /\ (Len(synced) = 1 \/ LastLog = NothingToSync) => opIdx >= 2

(***************************************************************************)
(* C19: the missing port and the store.                                    *)
(***************************************************************************)
\* C19: a run over a snapshot in which some container derives a routing
\* key and has no public web port, wherever it stands in the snapshot,
\* never sends a command to the store and never reports a success, and the
\* store stays what it was at the start; and whenever a sync has stopped
\* for want of a port, no command was sent and the store is unchanged.
C19_NoWriteOnPortAbort ==
  /\ RoutedPortless # {} =>
       /\ commands = <<>>
       /\ store = store0
       /\ synced = <<>>
       /\ ~Executing
  /\ \A i \in 1..Len(containers) :
       PortAbort(containers[i].Id) => commands = <<>> /\ store = store0

\* a sync stopped at the last container of the snapshot, after it had
\* derived the writes of the one before, over a store that is not empty
C19_Witness ==
  /\ Len(containers) >= 2
  /\ PortAbort(containers[Len(containers)].Id)
  /\ HasRoute(1) /\ HasWebPort(1)
  /\ Len(f) >= 1
  /\ DOMAIN store0 # {}
  /\ store = store0

(***************************************************************************)
(* C20: sync, then show.                                                   *)
(***************************************************************************)
\* no two containers of the snapshot select the same public port
DistinctPorts ==
  \A i, j \in 1..Len(containers) :
    HasWebPort(i) /\ HasWebPort(j) /\ i # j => SelectedPort(i) # SelectedPort(j)

\* C20: when no two containers select the same public port and a show
\* whose reads all succeed follows a successful sync of the same snapshot,
\* the table has, for every route the sync wrote, a row with the status of
\* the container the route was derived from, and none of these rows
\* carries the down marker.
C20_NeverDownAfterSync ==
  argv = <<"sync", "show">> /\ DistinctPorts /\ ShownOk /\ Len(tables) = 1 =>
    \A m \in 1..Len(f) :
      \E r \in 1..Len(tables[1]) :
        /\ tables[1][r][1] = "frontend:" \o f[m].k
        /\ tables[1][r][3] = containers[Last(DerivedBy(f[m].k))].Status
        /\ tables[1][r][3] # Down

====
